---- MODULE Spec2Model ----
(***************************************************************************)
(* Mass Tort Radar - law firm scraper (src/app.py).                        *)
(*                                                                         *)
(* A Python str is modelled as a sequence of one-character strings, so     *)
(* that lower(), strip(), split(), slicing, "in" and sorted() are computed *)
(* the way Python computes them.                                           *)
(***************************************************************************)
EXTENDS Integers, Sequences, FiniteSets, TLC

VARIABLES
    pc,            \* position of the script / of the function under test
    text,          \* mass_tort_hits: argument text
    keywords,      \* mass_tort_hits: argument keyword_list
    hits,          \* mass_tort_hits: returned list
    soup,          \* find_firm_name: argument soup
    firm_name,     \* find_firm_name: returned str
    uploaded,      \* the uploaded CSV: its header and the cells of its column
    keyword_file,  \* the optional uploaded keyword file
    keyword_list,  \* keyword_list of the script
    urls,          \* urls of the run handler
    i,             \* loop index of the batch loop (1-based)
    out_rows,      \* out_rows of the run handler
    response,      \* what requests.get produced for the URL being processed
                   \* (a position in Responses)
    fetched,       \* every GET issued so far: <<loop index, URL requested>>
    responses,     \* what requests.get produced for each GET issued so far
                   \* (positions in Responses)
    parsed,        \* per URL processed: did process_url get past line 117
    produced,      \* per URL processed: the loop index, the message of the
                   \* exception process_url raised (None if it returned) and
                   \* the row built for it
    sleeps,        \* number of time.sleep(0.5) calls that have returned
    st_error,      \* st.error was shown
    df_out,        \* rows of the output DataFrame
    report_built   \* the output DataFrame and download button were built

fnvars    == <<text, keywords, hits, soup, firm_name>>
batchvars == <<uploaded, keyword_file, keyword_list, urls, i, out_rows,
               response, fetched, responses, parsed, produced, sleeps,
               st_error,
               df_out, report_built>>
vars == <<pc, fnvars, batchvars>>

----------------------------------------------------------------------------
(* Python str primitives                                                    *)

\* Python's None, kept apart from every str (no str holds a 4-letter item).
None == <<"None">>

\* Characters in code-point order: TAB, LF, then printable ASCII
\* (less the double quote, the backslash and the grave accent, which no
\* string of the model holds).
CodePoints ==
    <<
       "\t", "\n", " ", "!", "#", "$", "%", "&", "'", "(", ")", "*", "+", ",", "-",
       ".", "/", "0", "1", "2", "3", "4", "5", "6", "7", "8", "9", ":", ";", "<", "=",
       ">", "?", "@", "A", "B", "C", "D", "E", "F", "G", "H", "I", "J", "K", "L", "M",
       "N", "O", "P", "Q", "R", "S", "T", "U", "V", "W", "X", "Y", "Z", "[", "]",
       "^", "_", "a", "b", "c", "d", "e", "f", "g", "h", "i", "j", "k", "l", "m",
       "n", "o", "p", "q", "r", "s", "t", "u", "v", "w", "x", "y", "z", "{", "|", "}",
       "~"
    >>

CharSet == {CodePoints[k] : k \in 1..Len(CodePoints)}

ord == [c \in CharSet |-> CHOOSE k \in 1..Len(CodePoints) : CodePoints[k] = c]

UpperCase == <<"A", "B", "C", "D", "E", "F", "G", "H", "I", "J", "K", "L", "M", "N", "O", "P", "Q", "R", "S", "T", "U", "V", "W", "X", "Y", "Z">>
LowerCase == <<"a", "b", "c", "d", "e", "f", "g", "h", "i", "j", "k", "l", "m", "n", "o", "p", "q", "r", "s", "t", "u", "v", "w", "x", "y", "z">>

lower_char == [c \in CharSet |->
    IF \E k \in 1..26 : UpperCase[k] = c
    THEN LowerCase[CHOOSE k \in 1..26 : UpperCase[k] = c] ELSE c]

upper_char == [c \in CharSet |->
    IF \E k \in 1..26 : LowerCase[k] = c
    THEN UpperCase[CHOOSE k \in 1..26 : LowerCase[k] = c] ELSE c]

\* str.isspace() for one character
Whitespace == {" ", "\t", "\n"}

\* str.lower()
lower(s) == [k \in 1..Len(s) |-> lower_char[s[k]]]

\* s[:n]
prefix(s, n) == SubSeq(s, 1, IF Len(s) < n THEN Len(s) ELSE n)

\* s.startswith(p)
startswith(s, p) == Len(s) >= Len(p) /\ SubSeq(s, 1, Len(p)) = p

\* sub in s
contains(s, sub) ==
    \E k \in 0..(Len(s) - Len(sub)) : \A j \in 1..Len(sub) : s[k + j] = sub[j]

RECURSIVE lstrip(_)
lstrip(s) ==
    IF s # <<>> /\ Head(s) \in Whitespace THEN lstrip(Tail(s)) ELSE s

RECURSIVE rstrip(_)
rstrip(s) ==
    IF s # <<>> /\ s[Len(s)] \in Whitespace
    THEN rstrip(SubSeq(s, 1, Len(s) - 1)) ELSE s

\* str.strip()
strip(s) == rstrip(lstrip(s))

\* the k-th smallest member of a set of integers
nth(S, k) == CHOOSE x \in S : Cardinality({y \in S : y <= x}) = k

\* s up to its first whitespace
first_word(s) ==
    LET ws == {k \in 1..Len(s) : s[k] \in Whitespace}
    IN  IF ws = {} THEN s ELSE SubSeq(s, 1, nth(ws, 1) - 1)

\* str.split() with no separator: the whitespace-separated words
RECURSIVE split(_)
split(s) ==
    LET t == lstrip(s)
        w == first_word(t)
    IN  IF t = <<>> THEN <<>>
        ELSE <<w>> \o split(SubSeq(t, Len(w) + 1, Len(t)))

\* sep.join(list)
RECURSIVE join(_, _)
join(sep, list) ==
    IF list = <<>> THEN <<>>
    ELSE IF Len(list) = 1 THEN list[1]
    ELSE list[1] \o sep \o join(sep, Tail(list))

\* a < b for two str: lexicographic by code point
RECURSIVE str_less(_, _)
str_less(a, b) ==
    IF b = <<>> THEN FALSE
    ELSE IF a = <<>> THEN TRUE
    ELSE IF a[1] # b[1] THEN ord[a[1]] < ord[b[1]]
    ELSE str_less(Tail(a), Tail(b))

\* sorted(set of str)
RECURSIVE sorted(_)
sorted(S) ==
    IF S = {} THEN <<>>
    ELSE LET m == CHOOSE x \in S : \A y \in S \ {x} : str_less(x, y)
         IN  <<m>> \o sorted(S \ {m})

Range(list) == {list[k] : k \in 1..Len(list)}

\* all strings over the characters C of length at most n
RECURSIVE StringsUpTo(_, _)
StringsUpTo(C, n) ==
    IF n = 0 THEN {<<>>}
    ELSE LET S == StringsUpTo(C, n - 1)
         IN  S \cup {Append(s, c) : s \in S, c \in C}

\* all lists over the items X of length at most n
RECURSIVE ListsUpTo(_, _)
ListsUpTo(X, n) ==
    IF n = 0 THEN {<<>>}
    ELSE LET S == ListsUpTo(X, n - 1)
         IN  S \cup {Append(s, x) : s \in S, x \in X}

----------------------------------------------------------------------------
(* Keyword matcher: mass_tort_hits, src/app.py lines 97-104                 *)

\* all(part in lower_text for part in parts), with any() in place of all()
term_matches_any(lower_text, term) ==
    LET parts == split(lower(term))
    IN  \E k \in 1..Len(parts) : contains(lower_text, parts[k])

\* parts = term.lower().split(); all(part in lower_text for part in parts)
term_matches(lower_text, term) ==
    LET parts == split(lower(term))
    IN  \A k \in 1..Len(parts) : contains(lower_text, parts[k])

\* the set found after the first n terms of the keyword list have been visited
RECURSIVE hits_found(_, _, _)
hits_found(lower_text, kwlist, n) ==
    IF n = 0 THEN {}
    ELSE LET found == hits_found(lower_text, kwlist, n - 1)
             term  == kwlist[n]
         IN  IF term_matches(lower_text, term) THEN found \cup {term}
             ELSE found

mass_tort_hits(t, kwlist) ==
    sorted(hits_found(lower(t), kwlist, Len(kwlist)))

----------------------------------------------------------------------------
(* The parsed document (BeautifulSoup) as the extractors see it             *)
(* Inside process_url the extractors run after extract_text has removed    *)
(* the script, style and noscript subtrees; metas, imgs and the other      *)
(* element lists describe the tree that is left.                           *)

\* metas:  content attribute of each <meta property="og:site_name">, in
\*         document order; None for a tag without content attribute
\* imgs:   alt attribute of each <img>, in document order; None without alt
\* titles: .string of each <title>, in document order; None when the title
\*         does not hold exactly one string
\* nodes:  the text nodes in document order, each with the tag that encloses it
\* nav_links: get_text() of each <a> inside a <nav>, then inside a <footer>
\* addresses: " ".join(get_text(" ").split()) of each <address>
\* tel:    whether an <a href="tel:..."> exists; tel_match: what PHONE_RE finds
\*         in its href and text; text_match: what PHONE_RE finds in the
\*         normalized page text (None for no match)
\* hinted: the strings in which ADDR_HINT finds a match
EmptySoup ==
    [metas |-> <<>>, imgs |-> <<>>, titles |-> <<>>, nodes |-> <<>>,
     nav_links |-> <<>>, addresses |-> <<>>, tel |-> FALSE,
     tel_match |-> None, text_match |-> None, hinted |-> {}]

----------------------------------------------------------------------------
(* Firm name extractor: find_firm_name, src/app.py lines 50-57              *)

\* [:140]
NameLimit == 140

\* soup.find("meta", property="og:site_name"): the first such tag, or None
find_og(s) == IF s.metas = <<>> THEN None ELSE <<s.metas[1]>>

\* the alt of the first <img> whose trimmed alt is longer than 2 characters
RECURSIVE select_qualifying_alt(_)
select_qualifying_alt(imgs) ==
    IF imgs = <<>> THEN None
    ELSE IF Head(imgs) # None /\ Len(strip(Head(imgs))) > 2 THEN Head(imgs)
    ELSE select_qualifying_alt(Tail(imgs))

\* soup.select_one("img[alt]"): the alt of the first <img> that has an alt
\* attribute, or None
RECURSIVE select_img_alt(_)
select_img_alt(imgs) ==
    IF imgs = <<>> THEN None
    ELSE IF Head(imgs) # None THEN Head(imgs)
    ELSE select_img_alt(Tail(imgs))

\* (soup.title.string if soup.title else "") or ""
title_string(s) ==
    IF s.titles = <<>> \/ s.titles[1] = None THEN <<>> ELSE s.titles[1]

find_firm_name(s) ==
    LET og   == find_og(s)
        logo == select_img_alt(s.imgs)
    IN  IF og # None /\ og[1] # None /\ og[1] # <<>> THEN strip(og[1])
        ELSE IF logo # None /\ Len(strip(logo)) > 2
             THEN prefix(strip(logo), NameLimit)
        ELSE prefix(strip(title_string(s)), NameLimit)

----------------------------------------------------------------------------
(* Configuration, src/app.py lines 11-18                                    *)

\* DEFAULT_MASS_TORT_TERMS: the literal split on "," with each item stripped
DEFAULT_MASS_TORT_TERMS ==
    <<
        <<"a", "f", "f", "f">>, <<"f", "i", "r", "e", "f", "i", "g", "h", "t", "i", "n", "g", " ", "f", "o", "a", "m">>, <<"p", "f", "a", "s">>,
        <<"c", "a", "m", "p", " ", "l", "e", "j", "e", "u", "n", "e">>, <<"3", "m", " ", "e", "a", "r", "p", "l", "u", "g">>, <<"e", "a", "r", "p", "l", "u", "g", "s">>,
        <<"p", "a", "r", "a", "q", "u", "a", "t">>, <<"r", "o", "u", "n", "d", "u", "p">>, <<"g", "l", "y", "p", "h", "o", "s", "a", "t", "e">>,
        <<"t", "a", "l", "c">>, <<"t", "a", "l", "c", "u", "m", " ", "p", "o", "w", "d", "e", "r">>, <<"b", "a", "b", "y", " ", "p", "o", "w", "d", "e", "r">>,
        <<"e", "l", "m", "i", "r", "o", "n">>, <<"h", "e", "r", "n", "i", "a", " ", "m", "e", "s", "h">>, <<"m", "e", "s", "h", " ", "i", "m", "p", "l", "a", "n", "t">>,
        <<"c", "p", "a", "p">>, <<"p", "h", "i", "l", "i", "p", "s", " ", "r", "e", "s", "p", "i", "r", "o", "n", "i", "c", "s">>, <<"h", "a", "i", "r", " ", "r", "e", "l", "a", "x", "e", "r">>,
        <<"o", "z", "e", "m", "p", "i", "c">>, <<"w", "e", "g", "o", "v", "y">>, <<"m", "o", "u", "n", "j", "a", "r", "o">>,
        <<"g", "l", "p", "-", "1">>, <<"s", "u", "b", "o", "x", "o", "n", "e", " ", "t", "o", "o", "t", "h", " ", "d", "e", "c", "a", "y">>, <<"z", "a", "n", "t", "a", "c">>,
        <<"v", "a", "l", "s", "a", "r", "t", "a", "n">>, <<"e", "x", "a", "c", "t", "e", "c", "h">>, <<"j", "u", "u", "l">>,
        <<"v", "a", "p", "i", "n", "g">>, <<"n", "e", "c", " ", "i", "n", "f", "a", "n", "t", " ", "f", "o", "r", "m", "u", "l", "a">>, <<"n", "e", "c">>,
        <<"t", "y", "l", "e", "n", "o", "l", " ", "p", "r", "e", "g", "n", "a", "n", "c", "y">>, <<"a", "p", "a", "p">>, <<"a", "c", "e", "t", "a", "m", "i", "n", "o", "p", "h", "e", "n", " ", "a", "u", "t", "i", "s", "m">>,
        <<"i", "n", "s", "u", "l", "i", "n", " ", "p", "u", "m", "p", " ", "r", "e", "c", "a", "l", "l">>, <<"h", "i", "p", " ", "i", "m", "p", "l", "a", "n", "t">>, <<"b", "e", "n", "z", "e", "n", "e", " ", "s", "u", "n", "s", "c", "r", "e", "e", "n">>,
        <<"s", "i", "l", "i", "c", "a">>, <<"s", "i", "l", "i", "c", "o", "s", "i", "s">>, <<"s", "o", "c", "i", "a", "l", " ", "m", "e", "d", "i", "a", " ", "h", "a", "r", "m">>,
        <<"s", "n", "a", "p", "c", "h", "a", "t", " ", "a", "d", "d", "i", "c", "t", "i", "o", "n">>, <<"t", "i", "k", "t", "o", "k", " ", "a", "d", "d", "i", "c", "t", "i", "o", "n">>, <<"m", "e", "t", "a", " ", "a", "d", "d", "i", "c", "t", "i", "o", "n">>,
        <<"u", "b", "e", "r", " ", "a", "s", "s", "a", "u", "l", "t">>, <<"c", "l", "e", "r", "g", "y", " ", "a", "b", "u", "s", "e">>, <<"b", "o", "y", " ", "s", "c", "o", "u", "t", "s", " ", "a", "b", "u", "s", "e">>,
        <<"s", "e", "x", "u", "a", "l", " ", "a", "b", "u", "s", "e">>, <<"p", "a", "r", "a", "q", "u", "a", "t", " ", "p", "a", "r", "k", "i", "n", "s", "o", "n">>
    >>

----------------------------------------------------------------------------
(* Fetcher: get_html, src/app.py lines 37-44                                *)

\* What requests.get(url, headers=HEADERS, timeout=20) produces:
\*   exception:    it raised (connection error, timeout, invalid URL)
\*   status_code:  r.status_code
\*   content_type: r.headers.get("Content-Type", ""), "" without the header
\*   html:         r.text
\* An html value (a str holding a page) is described by:
\*   chars:   len(html)
\*   raises:  the message of the exception BeautifulSoup(html, "html.parser")
\*            raises on it, None when it parses
\*   soup:    the document it parses to
\*   agency:  the matches of the AGENCY_PATTERNS in the raw html, in the
\*            iteration order of the mapping, each <<vendor, matched text>>
\*   none:    TRUE only for the value None that get_html returns
NoHtml ==
    [none |-> TRUE, chars |-> 0, raises |-> None, soup |-> EmptySoup,
     agency |-> <<>>]

\* HTTP status that get_html accepts
HTTP_OK == 200

\* get_html with the Content-Type test left out
get_html_any_type(r) ==
    IF r.exception THEN NoHtml
    ELSE IF r.status_code = HTTP_OK THEN r.html
    ELSE NoHtml

\* get_html, given what requests.get produced
get_html(r) ==
    IF r.exception THEN NoHtml
    ELSE IF r.status_code = HTTP_OK /\ contains(r.content_type, <<"t", "e", "x", "t", "/", "h", "t", "m", "l">>)
         THEN r.html
    ELSE NoHtml

----------------------------------------------------------------------------
(* Field extractors, src/app.py lines 46-95                                 *)

HiddenTags == {"script", "style", "noscript"}

\* extract_text: drop script/style/noscript, join the text nodes with " ",
\* collapse whitespace
extract_text(s) ==
    LET Visible(n) == n.tag \notin HiddenTags
        shown == SelectSeq(s.nodes, Visible)
        strings == [k \in 1..Len(shown) |-> shown[k].string]
    IN  join(<<" ">>, split(join(<<" ">>, strings)))

\* find_phone
find_phone(t, s) ==
    IF s.tel /\ s.tel_match # None THEN s.tel_match
    ELSE IF s.text_match # None THEN s.text_match
    ELSE <<>>

AreaMarkers ==
    <<
        <<"i", "n", "j", "u", "r", "y">>, <<"a", "c", "c", "i", "d", "e", "n", "t">>, <<"d", "i", "v", "o", "r", "c", "e">>, <<"f", "a", "m", "i", "l", "y">>, <<"c", "r", "i", "m", "i", "n", "a", "l">>,
        <<"d", "u", "i">>, <<"b", "a", "n", "k", "r", "u", "p", "t", "c", "y">>, <<"m", "a", "s", "s">>, <<"c", "l", "a", "s", "s">>, <<"a", "b", "u", "s", "e">>,
        <<"m", "e", "s", "h">>, <<"c", "p", "a", "p">>, <<"r", "o", "u", "n", "d", "u", "p">>, <<"t", "a", "l", "c">>, <<"e", "a", "r", "p", "l", "u", "g">>,
        <<"p", "a", "r", "a", "q", "u", "a", "t">>, <<"p", "f", "a", "s">>
    >>

AreaKeywords ==
    <<
        <<"p", "e", "r", "s", "o", "n", "a", "l", " ", "i", "n", "j", "u", "r", "y">>, <<"c", "a", "r", " ", "a", "c", "c", "i", "d", "e", "n", "t">>, <<"d", "i", "v", "o", "r", "c", "e">>,
        <<"f", "a", "m", "i", "l", "y", " ", "l", "a", "w">>, <<"c", "r", "i", "m", "i", "n", "a", "l", " ", "d", "e", "f", "e", "n", "s", "e">>, <<"m", "a", "s", "s", " ", "t", "o", "r", "t">>,
        <<"c", "l", "a", "s", "s", " ", "a", "c", "t", "i", "o", "n">>, <<"d", "u", "i">>, <<"t", "r", "u", "c", "k", " ", "a", "c", "c", "i", "d", "e", "n", "t">>,
        <<"m", "o", "t", "o", "r", "c", "y", "c", "l", "e", " ", "a", "c", "c", "i", "d", "e", "n", "t">>
    >>

\* str.title() of a lowercase phrase
title(s) ==
    [k \in 1..Len(s) |->
        IF k = 1 \/ lower_char[s[k - 1]] = upper_char[s[k - 1]]
        THEN upper_char[s[k]] ELSE lower_char[s[k]]]

\* find_practice_areas
find_practice_areas(s, t) ==
    LET label(k) == strip(s.nav_links[k])
        accepted(k) ==
            /\ Len(split(label(k))) >= 2
            /\ Len(split(label(k))) <= 5
            /\ Len(label(k)) <= 40
            /\ \E m \in 1..Len(AreaMarkers) :
                   contains(lower(label(k)), AreaMarkers[m])
        from_nav == {label(k) : k \in {j \in 1..Len(s.nav_links) : accepted(j)}}
        from_text == {title(AreaKeywords[k]) :
                         k \in {j \in 1..Len(AreaKeywords) :
                                   contains(lower(t), AreaKeywords[j])}}
    IN  sorted(from_nav \cup from_text)

\* re.split(r'\s{2,}', t): t cut at every run of two or more whitespace; the
\* empty strings it yields at a leading or trailing run are left out (the
\* length test of find_locations rejects them)
split_runs(t) ==
    LET cut(k) == /\ t[k] \in Whitespace
                  /\ \/ (k > 1 /\ t[k - 1] \in Whitespace)
                     \/ (k < Len(t) /\ t[k + 1] \in Whitespace)
        starts == {k \in 1..Len(t) : ~cut(k) /\ (k = 1 \/ cut(k - 1))}
        ends == {k \in 1..Len(t) : ~cut(k) /\ (k = Len(t) \/ cut(k + 1))}
    IN  [j \in 1..Cardinality(starts) |->
            SubSeq(t, nth(starts, j), nth(ends, j))]

\* the items of list in order of first occurrence
RECURSIVE unique(_)
unique(list) ==
    IF list = <<>> THEN <<>>
    ELSE LET rest == unique(SubSeq(list, 1, Len(list) - 1))
             last == list[Len(list)]
         IN  IF last \in Range(rest) THEN rest ELSE Append(rest, last)

\* find_locations.  CPython lists a set in hash order; the set is listed here
\* in insertion order, and no document of this model yields two locations.
find_locations(s, t) ==
    LET Hinted(x) == x \in s.hinted
        Sized(x) == Hinted(x) /\ 10 < Len(x) /\ Len(x) < 120
        chunks == SelectSeq(split_runs(t), Sized)
        locs == unique(SelectSeq(s.addresses, Hinted)
                           \o [k \in 1..Len(chunks) |-> strip(chunks[k])])
    IN  prefix(locs, 6)

\* detect_agency
detect_agency(html) ==
    IF html.agency = <<>> THEN << <<>>, <<>> >> ELSE html.agency[1]

----------------------------------------------------------------------------
(* Record assembler: process_url, src/app.py lines 106-133                  *)

\* if not url.startswith("http"): url = "https://" + url
normalize_url(url) ==
    IF ~startswith(url, <<"h", "t", "t", "p">>) THEN <<"h", "t", "t", "p", "s", ":", "/", "/">> \o url ELSE url

\* the initial row with a placeholder in latest_mass_tort_update
empty_row_pending(url) ==
    [url |-> url, firm_name |-> <<>>, phone |-> <<>>, practice_areas |-> <<>>,
     mass_tort_detected |-> <<"N">>, mass_tort_terms |-> <<>>,
     locations |-> <<>>, agency_detected |-> <<>>, agency_evidence |-> <<>>,
     latest_mass_tort_update |-> <<"p", "e", "n", "d", "i", "n", "g">>, page_title |-> <<>>,
     debug_snippet |-> <<>>]

\* the row as initialized at lines 109-115
empty_row(url) ==
    [url |-> url, firm_name |-> <<>>, phone |-> <<>>, practice_areas |-> <<>>,
     mass_tort_detected |-> <<"N">>, mass_tort_terms |-> <<>>,
     locations |-> <<>>, agency_detected |-> <<>>, agency_evidence |-> <<>>,
     latest_mass_tort_update |-> <<>>, page_title |-> <<>>,
     debug_snippet |-> <<>>]

\* lines 130-132: if hits: the flag and the joined terms
with_hits(row, found) ==
    IF found # <<>>
    THEN [row EXCEPT !.mass_tort_detected = <<"Y">>,
                     !.mass_tort_terms = join(<<" ", "|", " ">>, found)]
    ELSE row

\* lines 120-129: the fields filled from the text t and the areas
with_fields(url, html, t, areas, kwlist) ==
    LET s == html.soup
        agency == detect_agency(html)
    IN  with_hits(
            [empty_row(url) EXCEPT
                !.debug_snippet = prefix(t, 500),
                !.page_title = IF s.titles # <<>> /\ s.titles[1] # None
                                  /\ s.titles[1] # <<>>
                               THEN strip(s.titles[1]) ELSE <<>>,
                !.firm_name = find_firm_name(s),
                !.phone = find_phone(t, s),
                !.practice_areas = join(<<" ", "|", " ">>, areas),
                !.locations = join(<<" ", "|", " ">>, find_locations(s, t)),
                !.agency_detected = agency[1],
                !.agency_evidence = agency[2]],
            mass_tort_hits(t \o <<" ">> \o join(<<" ">>, areas), kwlist))

\* lines 118-133: the row filled from a non-empty html that parses
with_text(url, html, t, kwlist) ==
    with_fields(url, html, t, find_practice_areas(html.soup, t), kwlist)

extracted_row(url, html, kwlist) ==
    with_text(url, html, extract_text(html.soup), kwlist)

\* process_url(url, keyword_list), given what requests.get produces for the
\* normalized URL.  raised: the message of the exception that escapes, None
\* when the call returns; row: the returned row; parsed: line 118 was reached.
process_url(url, kwlist, r) ==
    LET u == normalize_url(url)
        html == get_html(r)
    IN  IF html.none \/ html.chars = 0
        THEN [raised |-> None, row |-> empty_row(u), parsed |-> FALSE]
        ELSE IF html.raises # None
        THEN [raised |-> html.raises, row |-> empty_row(u), parsed |-> TRUE]
        ELSE [raised |-> None, row |-> extracted_row(u, html, kwlist),
              parsed |-> TRUE]

----------------------------------------------------------------------------
(* Keyword file handling, src/app.py lines 143-158                          *)

\* str.splitlines() for "\n" line ends
splitlines(s) ==
    LET ends == {k \in 1..Len(s) : s[k] = "\n"}
        n == Cardinality(ends)
        from(j) == IF j = 1 THEN 1 ELSE nth(ends, j - 1) + 1
        to(j) == IF j <= n THEN nth(ends, j) - 1 ELSE Len(s)
        count == IF from(n + 1) <= Len(s) THEN n + 1 ELSE n
    IN  [j \in 1..count |-> SubSeq(s, from(j), to(j))]

\* Series.dropna().astype(str).tolist() over cells that are None or a str
dropna(cells) == LET Present(c) == c # None IN SelectSeq(cells, Present)

\* The uploaded keyword file:
\*   present: a file was uploaded;  txt: its name ends with ".txt"
\*   raises:  reading it raises (bad encoding, empty or unparsable CSV)
\*   content: the decoded text of a .txt file
\*   column:  the first column of a .csv file
NoKeywordFile ==
    [present |-> FALSE, txt |-> FALSE, raises |-> FALSE, content |-> <<>>,
     column |-> <<>>]

\* keyword_list = [line.strip() for line in lines], the blank lines kept
load_keywords_unfiltered(f) ==
    IF ~f.present \/ f.raises THEN DEFAULT_MASS_TORT_TERMS
    ELSE LET lines == IF f.txt THEN splitlines(f.content)
                      ELSE dropna(f.column)
         IN  [k \in 1..Len(lines) |-> strip(lines[k])]

\* lines 143-158: the keyword list the script ends up with
load_keywords(f) ==
    IF ~f.present \/ f.raises THEN DEFAULT_MASS_TORT_TERMS
    ELSE LET lines == IF f.txt THEN splitlines(f.content)
                      ELSE dropna(f.column)
             NonBlank(line) == strip(line) # <<>>
             kept == SelectSeq(lines, NonBlank)
         IN  [k \in 1..Len(kept) |-> strip(kept[k])]

----------------------------------------------------------------------------
(* Inputs of a run: the uploaded files and the network                      *)

MaxUrls == 2

\* cells of the url column: NaN (None), bare hosts, URLs with a scheme
UrlCells ==
    { None, <<"a", ".", "c", "o">>, <<"h", "t", "t", "p", "b", "i", "n", ".", "o", "r", "g">>, <<"h", "t", "t", "p", ":", "/", "/", "a", ".", "c", "o">> }

Uploads ==
    [columns : {{"url"}, {"website"}}, cells : ListsUpTo(UrlCells, MaxUrls)]

KeywordFiles ==
    { NoKeywordFile,
      [NoKeywordFile EXCEPT !.present = TRUE, !.txt = TRUE,
           !.content = <<" ", "R", "o", "u", "n", "d", "u", "p", " ", "\n", "\n", "c", "a", "m", "p", " ", "l", "e", "j", "e", "u", "n", "e", " ", "\n", " ", " ", " ", "\n">>],
      [NoKeywordFile EXCEPT !.present = TRUE,
           !.column = << <<"P", "a", "r", "a", "q", "u", "a", "t">>, None, <<" ">> >>],
      [NoKeywordFile EXCEPT !.present = TRUE, !.raises = TRUE] }

\* a firm page: og:site_name, tel link, practice-area menu, vendor script
FirmPage ==
    [none |-> FALSE, chars |-> 900, raises |-> None,
     agency |-> << << <<"S", "c", "o", "r", "p", "i", "o", "n">>, <<"c", "d", "n", ".", "s", "c", "o", "r", "p", "i", "o", "n", ".", "c", "o">> >>,
                   << <<"S", "c", "o", "r", "p", "i", "o", "n">>, <<"s", "c", "o", "r", "p", "i", "o", "n", ".", "m", "i", "n", ".", "j", "s">> >> >>,
     soup |-> [EmptySoup EXCEPT
        !.metas = << <<" ", "A", "c", "m", "e", " ", "L", "a", "w", " ">> >>,
        !.imgs = << None, <<"A", "c", "m", "e", " ", "l", "o", "g", "o">> >>,
        !.titles = << <<" ", "A", "c", "m", "e", " ", "-", " ", "H", "o", "m", "e", " ">> >>,
        !.nodes = << [tag |-> "title", string |-> <<" ", "A", "c", "m", "e", " ", "-", " ", "H", "o", "m", "e", " ">>],
                     [tag |-> "script", string |-> <<"t", " ", "=", " ", "'", "t", "a", "l", "c", "'", ";">>],
                     [tag |-> "p", string |-> <<" ", "R", "o", "u", "n", "d", "u", "p", " ", " ", "h", "a", "r", "m", "?", "\n">>],
                     [tag |-> "a", string |-> <<"H", "e", "r", "n", "i", "a", " ", "M", "e", "s", "h", " ", "C", "l", "a", "i", "m", "s">>],
                     [tag |-> "address", string |-> <<"1", " ", "M", "a", "i", "n", " ", "S", "t", ".">>] >>,
        !.nav_links = << <<"H", "e", "r", "n", "i", "a", " ", "M", "e", "s", "h", " ", "C", "l", "a", "i", "m", "s">>, <<"A", "b", "o", "u", "t">> >>,
        !.addresses = << <<"1", " ", "M", "a", "i", "n", " ", "S", "t", ".">> >>,
        !.hinted = { <<"1", " ", "M", "a", "i", "n", " ", "S", "t", ".">> },
        !.tel = TRUE,
        !.tel_match = <<"+", "1", "-", "5", "5", "5", "-", "1", "2", "3", "-", "4", "5", "6", "7">>,
        !.text_match = <<"5", "5", "5", "-", "1", "2", "3", "-", "4", "5", "6", "7">> ]]

\* a page without any mass tort term and without title or images
PlainPage ==
    [none |-> FALSE, chars |-> 300, raises |-> None, agency |-> <<>>,
     soup |-> [EmptySoup EXCEPT
        !.nodes = << [tag |-> "h1", string |-> <<"F", "a", "m", "i", "l", "y", " ", "l", "a", "w">>],
                     [tag |-> "p", string |-> <<"W", "i", "l", "l", "s", " ", "a", "n", "d", " ", "e", "s", "t", "a", "t", "e", "s">>] >>]]

\* a page on which the parser raises
BrokenPage ==
    [none |-> FALSE, chars |-> 5000, raises |-> <<"m", "a", "x", "i", "m", "u", "m", " ", "r", "e", "c", "u", "r", "s", "i", "o", "n", " ", "d", "e", "p", "t", "h", " ", "e", "x", "c", "e", "e", "d", "e", "d">>,
     agency |-> <<>>, soup |-> EmptySoup]

\* a zero-length body
EmptyBody == [NoHtml EXCEPT !.none = FALSE]

HtmlType == <<"t", "e", "x", "t", "/", "h", "t", "m", "l", ";", " ", "c", "h", "a", "r", "s", "e", "t", "=", "u", "t", "f", "-", "8">>

\* requests.get raised
ConnectionFailed ==
    [exception |-> TRUE, status_code |-> 0, content_type |-> <<>>,
     html |-> NoHtml]

\* what the network can answer; position 1 is the failed request
Responses ==
    << ConnectionFailed,
      [exception |-> FALSE, status_code |-> 404, content_type |-> HtmlType,
       html |-> FirmPage],
      [exception |-> FALSE, status_code |-> HTTP_OK,
       content_type |-> <<"a", "p", "p", "l", "i", "c", "a", "t", "i", "o", "n", "/", "p", "d", "f">>, html |-> FirmPage],
      [exception |-> FALSE, status_code |-> HTTP_OK, content_type |-> HtmlType,
       html |-> EmptyBody],
      [exception |-> FALSE, status_code |-> HTTP_OK, content_type |-> HtmlType,
       html |-> FirmPage],
      [exception |-> FALSE, status_code |-> HTTP_OK, content_type |-> HtmlType,
       html |-> PlainPage],
      [exception |-> FALSE, status_code |-> HTTP_OK, content_type |-> HtmlType,
       html |-> BrokenPage] >>

\* requests.get(u): without an http:// or https:// scheme it raises before
\* anything is sent; otherwise the network decides.  The positions in
\* Responses of what it can produce.
NetResponses(u) ==
    IF startswith(u, <<"h", "t", "t", "p", ":", "/", "/">>) \/ startswith(u, <<"h", "t", "t", "p", "s", ":", "/", "/">>)
    THEN 1..Len(Responses) ELSE {1}

----------------------------------------------------------------------------
(* The run handler and its batch loop, src/app.py lines 143-192             *)

\* the values the batch variables have while a single function is under test
BatchIdle ==
    /\ uploaded = [columns |-> {"url"}, cells |-> <<>>]
    /\ keyword_file = NoKeywordFile
    /\ keyword_list = DEFAULT_MASS_TORT_TERMS
    /\ urls = <<>>
    /\ i = 0
    /\ out_rows = <<>>
    /\ response = 1
    /\ fetched = <<>>
    /\ responses = <<>>
    /\ parsed = <<>>
    /\ produced = <<>>
    /\ sleeps = 0
    /\ st_error = FALSE
    /\ df_out = <<>>
    /\ report_built = FALSE

FnIdle ==
    /\ text = <<>>
    /\ keywords = <<>>
    /\ hits = <<>>
    /\ soup = EmptySoup
    /\ firm_name = <<>>

Init ==
    /\ pc = "keywords"
    /\ uploaded \in Uploads
    /\ keyword_file \in KeywordFiles
    /\ keyword_list = DEFAULT_MASS_TORT_TERMS
    /\ urls = <<>>
    /\ i = 0
    /\ out_rows = <<>>
    /\ response = 1
    /\ fetched = <<>>
    /\ responses = <<>>
    /\ parsed = <<>>
    /\ produced = <<>>
    /\ sleeps = 0
    /\ st_error = FALSE
    /\ df_out = <<>>
    /\ report_built = FALSE
    /\ FnIdle

\* lines 143-158
LoadKeywords ==
    /\ pc = "keywords"
    /\ keyword_list' = load_keywords(keyword_file)
    /\ pc' = "run"
    /\ UNCHANGED <<fnvars, uploaded, keyword_file, urls, i, out_rows, response,
                   fetched, responses, parsed, produced, sleeps, st_error, df_out,
                   report_built>>

\* the run handler proceeding whatever the columns are
RunUnchecked ==
    /\ pc = "run"
    /\ urls' = dropna(uploaded.cells)
    /\ out_rows' = <<>>
    /\ i' = 1
    /\ pc' = IF dropna(uploaded.cells) = <<>> THEN "report" ELSE "fetch"
    /\ UNCHANGED <<fnvars, uploaded, keyword_file, keyword_list, response,
                   fetched, responses, parsed, produced, sleeps, st_error, df_out,
                   report_built>>

\* lines 160-168: the column check, then urls, out_rows and the loop entry
Run ==
    /\ pc = "run"
    /\ IF "url" \notin uploaded.columns
       THEN /\ st_error' = TRUE
            /\ pc' = "done"
            /\ UNCHANGED <<urls, out_rows, i>>
       ELSE /\ urls' = dropna(uploaded.cells)
            /\ out_rows' = <<>>
            /\ i' = 1
            /\ pc' = IF dropna(uploaded.cells) = <<>> THEN "report" ELSE "fetch"
            /\ UNCHANGED st_error
    /\ UNCHANGED <<fnvars, uploaded, keyword_file, keyword_list, response,
                   fetched, responses, parsed, produced, sleeps, df_out,
                   report_built>>

\* lines 169-172, 106-108, 116, 39: the loop takes urls[i], process_url
\* normalizes it and get_html issues the one GET
IssueFetch ==
    /\ pc = "fetch"
    /\ LET u == normalize_url(urls[i])
       IN  /\ fetched' = Append(fetched, <<i, u>>)
           /\ \E r \in NetResponses(u) :
                  /\ response' = r
                  /\ responses' = Append(responses, r)
    /\ pc' = "process"
    /\ UNCHANGED <<fnvars, uploaded, keyword_file, keyword_list, urls, i,
                   out_rows, parsed, produced, sleeps, st_error, df_out,
                   report_built>>

\* lines 174-178: the row built when process_url raised e
error_row(u, e) ==
    [empty_row(u) EXCEPT !.latest_mass_tort_update = <<"e", "r", "r", "o", "r", ":", " ">> \o e]

\* the except branch leaving latest_mass_tort_update empty
made_row_no_annotation(u, res) ==
    IF res.raised # None THEN empty_row(u) ELSE res.row

\* lines 171-178: the row the try/except yields for urls[i]
made_row(u, res) ==
    IF res.raised # None THEN error_row(u, res.raised) ELSE res.row

\* the row put in front instead of at the end
append_front(rows, row) == <<row>> \o rows

\* out_rows.append(row)
append(rows, row) == Append(rows, row)

\* lines 117-133 and 171-178: the rest of process_url on the response, and
\* the append of its row or of the error row
Process ==
    /\ pc = "process"
    /\ LET res == process_url(urls[i], keyword_list, Responses[response])
           row == made_row(urls[i], res)
       IN  /\ out_rows' = append(out_rows, row)
           /\ parsed' = Append(parsed, res.parsed)
           /\ produced' = Append(produced,
                              [i |-> i, raised |-> res.raised, row |-> row])
    /\ pc' = "pause"
    /\ UNCHANGED <<fnvars, uploaded, keyword_file, keyword_list, urls, i,
                   response, fetched, responses, sleeps, st_error, df_out,
                   report_built>>

\* the step after the pause, fetching the same URL again
next_step_retry(k, n) == [i |-> k, pc |-> "fetch"]

\* lines 169, 179-180: after the pause, the next URL or the end of the loop
next_step(k, n) ==
    IF k < n THEN [i |-> k + 1, pc |-> "fetch"] ELSE [i |-> k, pc |-> "report"]

\* lines 179-180: progress, time.sleep(0.5), and the loop's next iteration
Pause ==
    /\ pc = "pause"
    /\ sleeps' = sleeps + 1
    /\ i' = next_step(i, Len(urls)).i
    /\ pc' = next_step(i, Len(urls)).pc
    /\ UNCHANGED <<fnvars, uploaded, keyword_file, keyword_list, urls,
                   out_rows, response, fetched, responses, parsed, produced,
                   st_error, df_out, report_built>>

\* lines 181-192: the output DataFrame, preview and download button
Report ==
    /\ pc = "report"
    /\ df_out' = out_rows
    /\ report_built' = TRUE
    /\ pc' = "done"
    /\ UNCHANGED <<fnvars, uploaded, keyword_file, keyword_list, urls, i,
                   out_rows, response, fetched, responses, parsed, produced,
                   sleeps, st_error>>

Next == LoadKeywords \/ Run \/ IssueFetch \/ Process \/ Pause \/ Report

Spec == Init /\ [][Next]_vars

----------------------------------------------------------------------------
(* Properties of the batch                                                  *)

\* the non-null cells of the url column, in order
NonNullCells ==
    LET at == {k \in 1..Len(uploaded.cells) : uploaded.cells[k] # None}
    IN  [k \in 1..Cardinality(at) |-> uploaded.cells[nth(at, k)]]

\* the response to the k-th GET
ResponseAt(k) == Responses[responses[k]]

\* the k-th fetch ended in an error, a status other than 200 or a content
\* type without text/html
FetchFailed(k) ==
    \/ ResponseAt(k).exception
    \/ ResponseAt(k).status_code # 200
    \/ ~contains(ResponseAt(k).content_type, <<"t", "e", "x", "t", "/", "h", "t", "m", "l">>)

\* every derived field of the row is empty and the flag is "N"
DerivedEmpty(row) ==
    /\ row.firm_name = <<>>
    /\ row.phone = <<>>
    /\ row.practice_areas = <<>>
    /\ row.mass_tort_terms = <<>>
    /\ row.locations = <<>>
    /\ row.agency_detected = <<>>
    /\ row.agency_evidence = <<>>
    /\ row.page_title = <<>>
    /\ row.mass_tort_detected = <<"N">>

HasScheme(u) == startswith(u, <<"h", "t", "t", "p", ":", "/", "/">>) \/ startswith(u, <<"h", "t", "t", "p", "s", ":", "/", "/">>)

\* C1: a finished batch over N non-null url cells has exactly N records, and
\* the record at position k is the one built for the k-th URL.
C1_OneRecordPerUrlInOrder ==
    (pc = "done" /\ report_built) =>
        /\ Len(df_out) = Len(NonNullCells)
        /\ \A k \in 1..Len(df_out) :
               /\ produced[k].i = k
               /\ df_out[k] = produced[k].row
               /\ df_out[k].url \in {NonNullCells[k], <<"h", "t", "t", "p", "s", ":", "/", "/">> \o NonNullCells[k]}

\* C1 witness: a finished batch over two different URLs, the first with a
\* parse that raised, the second extracted
C1_Witness ==
    /\ pc = "done"
    /\ report_built
    /\ Len(df_out) = 2
    /\ urls[1] # urls[2]
    /\ produced[1].raised # None
    /\ df_out[2].mass_tort_detected = <<"Y">>

\* C2: in every record mass_tort_detected is "Y" exactly when
\* mass_tort_terms is non-empty, and "N" with empty terms otherwise.
C2_DetectedIffTerms ==
    \A k \in 1..Len(out_rows) :
        /\ out_rows[k].mass_tort_detected \in { <<"Y">>, <<"N">> }
        /\ out_rows[k].mass_tort_detected = <<"Y">>
               <=> out_rows[k].mass_tort_terms # <<>>

\* C2 witness: a custom keyword file with blank lines, a page without hits
\* and a page with hits
C2_Witness ==
    /\ keyword_file.present /\ ~keyword_file.raises
    /\ Len(out_rows) = 2
    /\ parsed[1] /\ produced[1].raised = None
    /\ out_rows[1].mass_tort_detected = <<"N">>
    /\ out_rows[2].mass_tort_terms = <<"R", "o", "u", "n", "d", "u", "p">>

\* C3: after a failed fetch (error, status other than 200, content type
\* without text/html) get_html returns None, nothing is parsed or extracted,
\* and process_url returns, without raising, a row whose derived fields are
\* all empty with mass_tort_detected "N".
C3_FailedFetchEmptyRow ==
    \A k \in 1..Len(out_rows) :
        FetchFailed(k) =>
            /\ get_html(ResponseAt(k)).none
            /\ ~parsed[k]
            /\ produced[k].raised = None
            /\ DerivedEmpty(out_rows[k])

\* C3 witness: a 404 carrying an HTML page, then a 200 application/pdf
C3_Witness ==
    /\ Len(out_rows) = 2
    /\ ResponseAt(1).status_code = 404
    /\ ResponseAt(1).html = FirmPage
    /\ ResponseAt(2).status_code = 200
    /\ ResponseAt(2).content_type = <<"a", "p", "p", "l", "i", "c", "a", "t", "i", "o", "n", "/", "p", "d", "f">>

\* the rows before position k are what process_url returns for their own URL
\* and response
OthersUntouched(k) ==
    \A j \in 1..Len(out_rows) :
        (j # k /\ produced[j].raised = None) =>
            out_rows[j] = process_url(urls[j], keyword_list, ResponseAt(j)).row

\* C4: when processing the k-th URL raises, the driver appends for it a row
\* with every derived field empty plus the error annotation and goes on to
\* URL k+1; every other URL's row is what its own URL and response give.
C4_ExceptionIsolated ==
    \A k \in 1..Len(produced) :
        produced[k].raised # None =>
            /\ Len(out_rows) >= k
            /\ DerivedEmpty(out_rows[k])
            /\ out_rows[k].url = urls[k]
            /\ out_rows[k].latest_mass_tort_update = <<"e", "r", "r", "o", "r", ":", " ">> \o produced[k].raised
            /\ (pc \in {"report", "done"} => Len(out_rows) = Len(urls))
            /\ (pc = "done" => OthersUntouched(k))

\* C4 witness: the first URL raised, the second was then fetched and
\* extracted, and the report was built
C4_Witness ==
    /\ pc = "done"
    /\ Len(df_out) = 2
    /\ produced[1].raised # None
    /\ produced[2].raised = None
    /\ parsed[2]
    /\ df_out[2].firm_name = <<"A", "c", "m", "e", " ", "L", "a", "w">>

\* C5 as stated: latest_mass_tort_update is empty in every row.
C5_UpdateColumnNeverWritten ==
    \A k \in 1..Len(out_rows) : out_rows[k].latest_mass_tort_update = <<>>

\* C5 amended: latest_mass_tort_update is empty in every row of a URL whose
\* processing returned (extracted or no content); in the row of a URL whose
\* processing raised it holds "error: " followed by the exception's message.
C5_UpdateColumnOnlyOnError ==
    \A k \in 1..Len(out_rows) :
        /\ produced[k].raised = None
               => out_rows[k].latest_mass_tort_update = <<>>
        /\ produced[k].raised # None
               => out_rows[k].latest_mass_tort_update
                      = <<"e", "r", "r", "o", "r", ":", " ">> \o produced[k].raised

\* C5 witness: an extracted row, then the row of a URL that raised
C5_Witness ==
    /\ Len(out_rows) = 2
    /\ parsed[1] /\ produced[1].raised = None
    /\ produced[2].raised # None
    /\ out_rows[2].latest_mass_tort_update # <<>>

\* C7: without a url column the error is shown and nothing else happens: no
\* URL is fetched, no row is built, no output table is built.
C7_NoUrlColumnNoBatch ==
    "url" \notin uploaded.columns =>
        /\ fetched = <<>>
        /\ out_rows = <<>>
        /\ produced = <<>>
        /\ df_out = <<>>
        /\ ~report_built
        /\ pc \in {"keywords", "run", "done"}
        /\ (pc = "done" => st_error)

\* C7 witness: the handler ended on the error over a file with two URLs
C7_Witness ==
    /\ pc = "done"
    /\ st_error
    /\ "url" \notin uploaded.columns
    /\ Len(dropna(uploaded.cells)) = 2

\* C8: the k-th GET is for the k-th URL, it is issued only after k-1 rows
\* have been appended and k-1 pauses have elapsed, and a finished batch has
\* issued exactly one GET per URL.
C8_SequentialNoRetry ==
    /\ \A k \in 1..Len(fetched) :
           /\ fetched[k][1] = k
           /\ fetched[k][2] \in {urls[k], <<"h", "t", "t", "p", "s", ":", "/", "/">> \o urls[k]}
    /\ Len(fetched) <= Len(urls)
    /\ Len(fetched) <= Len(out_rows) + 1
    /\ Len(fetched) <= sleeps + 1
    /\ (pc = "done" /\ report_built) => Len(fetched) = Len(urls)

\* C8 witness: the second GET has just been issued
C8_Witness ==
    /\ pc = "process"
    /\ i = 2
    /\ Len(fetched) = 2
    /\ Len(out_rows) = 1
    /\ sleeps = 1

\* C10 as stated: a URL without scheme is fetched and stored with https://
\* in front, a URL with http:// or https:// is fetched and stored unchanged.
C10_UrlNormalized ==
    \A k \in 1..Len(out_rows) :
        LET want == IF HasScheme(urls[k]) THEN urls[k]
                    ELSE <<"h", "t", "t", "p", "s", ":", "/", "/">> \o urls[k]
        IN  /\ fetched[k][2] = want
            /\ out_rows[k].url = want

----------------------------------------------------------------------------
(* mass_tort_hits under test: every text and keyword list within bounds     *)

MaxTextLen  == 3
MaxKeywords == 2

HitsChars == {"a", "B", " "}

HitsTerms ==
    { <<"a">>, <<"B">>, <<"b">>, <<"a", "B">>, <<"a", " ", "B">>, <<"B", " ", " ", "a">>, <<" ", "a", " ">>, <<"A", " ", "b">>, <<>>, <<" ">> }

HitsInit ==
    /\ pc = "call"
    /\ text \in StringsUpTo(HitsChars, MaxTextLen)
    /\ keywords \in ListsUpTo(HitsTerms, MaxKeywords)
    /\ hits = <<>>
    /\ soup = EmptySoup
    /\ firm_name = <<>>
    /\ BatchIdle

CallHits ==
    /\ pc = "call"
    /\ hits' = mass_tort_hits(text, keywords)
    /\ pc' = "return"
    /\ UNCHANGED <<text, keywords, soup, firm_name, batchvars>>

HitsNext == CallHits

SpecHits == HitsInit /\ [][HitsNext]_vars

\* w is a whitespace-separated word of the phrase p
IsWordOf(w, p) ==
    \E a \in 1..Len(p) : \E b \in a..Len(p) :
        /\ w = SubSeq(p, a, b)
        /\ \A k \in a..b : p[k] \notin Whitespace
        /\ (a = 1 \/ p[a - 1] \in Whitespace)
        /\ (b = Len(p) \/ p[b + 1] \in Whitespace)

WordsOf(p) == {SubSeq(p, a, b) : a \in 1..Len(p), b \in 1..Len(p)}

\* every word of p, lowercased, is a substring of lowercased t
PhrasePresent(p, t) ==
    \A w \in WordsOf(p) : IsWordOf(w, p) =>
        \E k \in 0..(Len(t) - Len(w)) :
            \A j \in 1..Len(w) : lower_char[t[k + j]] = lower_char[w[j]]

\* C6: mass_tort_hits(T, K) is the strictly ascending (sorted, duplicate-free)
\* list of exactly those phrases of K, in their original casing, whose every
\* whitespace-separated word, lowercased, is a substring of lowercased T.
C6_HitsExact ==
    pc = "return" =>
        /\ \A a \in 1..Len(hits) : \A b \in 1..Len(hits) :
               a < b => str_less(hits[a], hits[b])
        /\ Range(hits) = {p \in Range(keywords) : PhrasePresent(p, text)}

\* C6 witness: a two-word phrase matched out of order, without a gap and
\* across case, next to a phrase rejected for its absent word
C6_Witness ==
    /\ pc = "return"
    /\ text = <<"B", "a">>
    /\ keywords = << <<"a", " ", "B">>, <<"a", "B">> >>
    /\ hits = << <<"a", " ", "B">> >>

----------------------------------------------------------------------------
(* find_firm_name under test: every document within bounds                  *)

MaxMetas  == 1
MaxImgs   == 2
MaxTitles == 1

\* n copies of the character c
repeat(c, n) == [k \in 1..n |-> c]

\* padded strings whose trimmed length exceeds NameLimit by three
LongAlt   == <<" ">> \o repeat("x", NameLimit) \o <<"y", "z", " ", " ">>
LongTitle == <<" ", " ">> \o repeat("t", NameLimit) \o <<"u", "v", " ">>

FirmMetaContents == { None, <<>>, <<" ", " ">>, <<" ", "A", "c", "m", "e", " ", "L", "a", "w", " ">>, LongAlt }
FirmAlts         == { None, <<" ", "a", "b", " ">>, <<" ", "A", "c", "m", "e", " ">>, LongAlt }
FirmTitleStrings == { None, <<>>, <<" ", "A", "c", "m", "e", " ", "-", " ", "H", "o", "m", "e", " ">>, LongTitle }

FirmInit ==
    /\ pc = "call"
    /\ \E m \in ListsUpTo(FirmMetaContents, MaxMetas) :
       \E g \in ListsUpTo(FirmAlts, MaxImgs) :
       \E t \in ListsUpTo(FirmTitleStrings, MaxTitles) :
           soup = [EmptySoup EXCEPT !.metas = m, !.imgs = g, !.titles = t]
    /\ firm_name = <<>>
    /\ text = <<>>
    /\ keywords = <<>>
    /\ hits = <<>>
    /\ BatchIdle

CallFirmName ==
    /\ pc = "call"
    /\ firm_name' = find_firm_name(soup)
    /\ pc' = "return"
    /\ UNCHANGED <<text, keywords, hits, soup, batchvars>>

FirmNext == CallFirmName

SpecFirm == FirmInit /\ [][FirmNext]_vars

\* the og:site_name meta tag that the lookup finds has a non-empty content
OgHasContent ==
    /\ soup.metas # <<>>
    /\ soup.metas[1] # None
    /\ soup.metas[1] # <<>>

\* the document title text, "" without a title or without a single string
TitleText ==
    IF soup.titles = <<>> \/ soup.titles[1] = None THEN <<>> ELSE soup.titles[1]

\* s, trimmed, then cut to NameLimit characters
Trimmed(s) == strip(s)
Cut(s) == IF Len(s) <= NameLimit THEN s ELSE SubSeq(s, 1, NameLimit)

\* the image at position k has an alt whose trimmed length exceeds 2
Qualifies(k) == soup.imgs[k] # None /\ Len(Trimmed(soup.imgs[k])) > 2

\* C9 as stated: og:site_name, else the first image whose alt qualifies, else
\* the title, else "".
C9_FirstQualifyingAlt ==
    pc = "return" =>
        IF OgHasContent THEN firm_name = Trimmed(soup.metas[1])
        ELSE IF \E k \in 1..Len(soup.imgs) : Qualifies(k)
        THEN LET k == CHOOSE j \in 1..Len(soup.imgs) :
                         Qualifies(j) /\ \A h \in 1..(j - 1) : ~Qualifies(h)
             IN  firm_name = Cut(Trimmed(soup.imgs[k]))
        ELSE firm_name = Cut(Trimmed(TitleText))

\* C9 amended: (1) the trimmed content of the first og:site_name meta tag when
\* that content is non-empty; else (2) the alt of the first image that carries
\* an alt attribute, trimmed and cut to 140 characters, when its trimmed length
\* exceeds 2 (later images are never consulted); else (3) the title text,
\* trimmed and cut to 140 characters; which is "" without a title.
C9_FirmNamePriority ==
    pc = "return" =>
        LET withAlt == {k \in 1..Len(soup.imgs) : soup.imgs[k] # None}
            logo == IF withAlt = {} THEN 0
                    ELSE CHOOSE k \in withAlt : \A j \in withAlt : k <= j
        IN  /\ OgHasContent => firm_name = Trimmed(soup.metas[1])
            /\ (~OgHasContent /\ logo # 0 /\ Qualifies(logo))
                   => firm_name = Cut(Trimmed(soup.imgs[logo]))
            /\ (~OgHasContent /\ (logo = 0 \/ ~Qualifies(logo)))
                   => firm_name = Cut(Trimmed(TitleText))

\* C9 witness: no og:site_name content, a first image without alt, then a
\* long qualifying alt that is returned cut to 140 characters over the title
C9_Witness ==
    /\ pc = "return"
    /\ ~OgHasContent
    /\ soup.imgs = <<None, LongAlt>>
    /\ soup.titles # <<>>
    /\ Len(firm_name) = NameLimit

====
